---- MODULE Spec2Model ----
(***************************************************************************)
(* Model of script.py: the two face-matching functions                     *)
(* (find_intersecting_face_based_on_far_end, find_intersecting_face),      *)
(* get_opposite_face_of_equipment, place_family_instance_at_location and   *)
(* the sleeve placement loop.                                              *)
(*                                                                         *)
(* Lengths are integers in units of 0.0001 ft, so 0.2 ft is 2000 and the   *)
(* threshold 0.3937 ft is 3937.  The scaled tolerance                      *)
(* base_tolerance * (diameter / threshold) is kept as an exact fraction    *)
(* num/den; floating-point rounding is not modelled.                       *)
(***************************************************************************)
EXTENDS Integers, Sequences, FiniteSets, TLC

VARIABLES pc, geo_element, equip_bbox, result,
          face_normal, new_instance,
          elements, family_instance_data, elem_idx, far_end_point,
          placed_instance_count, instances

vars == <<pc, geo_element, equip_bbox, result, face_normal, new_instance,
          elements, family_instance_data, elem_idx, far_end_point,
          placed_instance_count, instances>>

(* ------------------------------ bounds --------------------------------- *)
MaxObjs == 2
MaxFaces == 2
MaxDistK == 5
MaxSampledFaces == 2
MaxCoord == 2
MaxElems == 2
MaxIntersects == 2

(* --------------------------- program constants ------------------------- *)
threshold == 3937
base_tolerance == 2000
fif_tolerance == 2000

(* Python's None, for every object-valued slot. *)
None == [none |-> TRUE]

(* A module-level name that has not been assigned yet. *)
Unbound == [unbound |-> TRUE]

(* float('inf') and finite distances, with the comparisons the code uses. *)
Inf == [inf |-> TRUE, val |-> 0]
Fin(d) == [inf |-> FALSE, val |-> d]
LtMin(d, m) == m.inf \/ d < m.val
LeMin(d, m) == m.inf \/ d <= m.val
MinGt(m, t) == m.inf \/ m.val > t

Abs(x) == IF x < 0 THEN -x ELSE x
Max2(a, b) == IF a >= b THEN a ELSE b

(* ------------------------------ geometry ------------------------------- *)
XYZ(x, y, z) == [X |-> x, Y |-> y, Z |-> z]
BasisX == XYZ(1, 0, 0)
BasisY == XYZ(0, 1, 0)

SampleCoords == <<2, 4, 6, 8>>

(* [DB.UV(u, v) for u in [...] for v in [...]], coordinates in tenths. *)
sample_uvs ==
    [k \in 1..(Len(SampleCoords) * Len(SampleCoords)) |->
        <<SampleCoords[((k - 1) \div Len(SampleCoords)) + 1],
          SampleCoords[((k - 1) % Len(SampleCoords)) + 1]>>]

UVSet == {sample_uvs[k] : k \in DOMAIN sample_uvs}

(* A face as the host presents it to one probe point: proj is the result   *)
(* of face.Project(point) (None, or an object with a Distance); offsets[uv]*)
(* is (point - face.Evaluate(uv)) . face.ComputeNormal(uv); planar says    *)
(* whether it is a DB.PlanarFace; Reference may be None.                   *)
MkFace(id, proj, planar, offsets, ref, normal) ==
    [id |-> id, proj |-> proj, planar |-> planar, offsets |-> offsets,
     Reference |-> ref, normal |-> normal]

NonSolid == [isSolid |-> FALSE, Faces |-> <<>>]
Solid(faces) == [isSolid |-> TRUE, Faces |-> faces]

Project(face, point) == face.proj

(* --------- find_intersecting_face_based_on_far_end (lines 45-61) ------- *)
Diameter(bbox) == Max2(bbox.Max.X - bbox.Min.X, bbox.Max.Y - bbox.Min.Y)

UnscaledTolerance(diameter, base) == [num |-> base, den |-> 1]

EffectiveTolerance(diameter, base) ==
    IF diameter > threshold
    THEN [num |-> base * diameter, den |-> threshold]
    ELSE [num |-> base, den |-> 1]

LeqTol(d, tol) == d * tol.den <= tol.num

FFE_Start == [min_distance |-> Inf, closest_face |-> None]

FFE_FaceTieLast(st, face, point, tolerance) ==
    LET proj == Project(face, point) IN
    IF proj # None /\ LeMin(proj.Distance, st.min_distance)
                   /\ LeqTol(proj.Distance, tolerance)
    THEN [min_distance |-> Fin(proj.Distance), closest_face |-> face]
    ELSE st

FFE_FaceAbortOnNone(st, face, point, tolerance) ==
    LET proj == Project(face, point) IN
    IF proj = None THEN FFE_Start
    ELSE IF LtMin(proj.Distance, st.min_distance) /\ LeqTol(proj.Distance, tolerance)
         THEN [min_distance |-> Fin(proj.Distance), closest_face |-> face]
         ELSE st

FFE_Face(st, face, point, tolerance) ==
    LET proj == Project(face, point) IN
    IF proj # None /\ LtMin(proj.Distance, st.min_distance)
                   /\ LeqTol(proj.Distance, tolerance)
    THEN [min_distance |-> Fin(proj.Distance), closest_face |-> face]
    ELSE st

RECURSIVE FFE_Faces(_, _, _, _, _)
FFE_Faces(st, faces, j, point, tolerance) ==
    IF j > Len(faces) THEN st
    ELSE FFE_Faces(FFE_Face(st, faces[j], point, tolerance), faces, j + 1,
                   point, tolerance)

RECURSIVE FFE_Objs(_, _, _, _, _)
FFE_Objs(st, geo, i, point, tolerance) ==
    IF i > Len(geo) THEN st
    ELSE FFE_Objs(IF geo[i].isSolid
                  THEN FFE_Faces(st, geo[i].Faces, 1, point, tolerance)
                  ELSE st,
                  geo, i + 1, point, tolerance)

(* Returns [raised, value]: raised is TRUE when the call ends with an      *)
(* exception (equip_bbox.Max of None is an AttributeError).                *)
find_intersecting_face_based_on_far_end(geo, point, bbox, base) ==
    IF bbox = None
    THEN [raised |-> TRUE, value |-> None]
    ELSE LET tolerance == EffectiveTolerance(Diameter(bbox), base) IN
         [raised |-> FALSE,
          value |-> FFE_Objs(FFE_Start, geo, 1, point, tolerance).closest_face]

(* ------------------- find_intersecting_face (lines 63-87) -------------- *)
FIF_Start == [min_distance |-> Inf, closest_face |-> None, evaluated |-> 0]

FIF_PrimaryFace(st, face, point) ==
    LET proj == Project(face, point) IN
    IF proj # None /\ LtMin(proj.Distance, st.min_distance)
    THEN [st EXCEPT !.min_distance = Fin(proj.Distance), !.closest_face = face]
    ELSE st

RECURSIVE FIF_PrimaryFaces(_, _, _, _)
FIF_PrimaryFaces(st, faces, j, point) ==
    IF j > Len(faces) THEN st
    ELSE FIF_PrimaryFaces(FIF_PrimaryFace(st, faces[j], point), faces, j + 1, point)

RECURSIVE FIF_PrimaryObjs(_, _, _, _)
FIF_PrimaryObjs(st, geo, i, point) ==
    IF i > Len(geo) THEN st
    ELSE FIF_PrimaryObjs(IF geo[i].isSolid
                         THEN FIF_PrimaryFaces(st, geo[i].Faces, 1, point)
                         ELSE st,
                         geo, i + 1, point)

AlwaysFallback(st, tolerance) == TRUE

(* line 74 *)
NeedsFallback(st, tolerance) ==
    st.closest_face = None \/ MinGt(st.min_distance, tolerance)

(* line 83: abs((point - sample_pt).DotProduct(normal)) *)
SampleDistance(face, uv, point) == Abs(face.offsets[uv])

FIF_SampleLastWins(st, face, uv, point, tolerance) ==
    LET dist == SampleDistance(face, uv, point)
        st1 == [st EXCEPT !.evaluated = @ + 1]
    IN  IF dist < tolerance
        THEN [st1 EXCEPT !.min_distance = Fin(dist), !.closest_face = face]
        ELSE st1

(* lines 81-86; evaluated counts the face.Evaluate calls made. *)
FIF_Sample(st, face, uv, point, tolerance) ==
    LET dist == SampleDistance(face, uv, point)
        st1 == [st EXCEPT !.evaluated = @ + 1]
    IN  IF dist < tolerance /\ LtMin(dist, st.min_distance)
        THEN [st1 EXCEPT !.min_distance = Fin(dist), !.closest_face = face]
        ELSE st1

(* The loops below thread the running state st through every iteration;  *)
(* the test on st.evaluated only makes each iteration's state be computed  *)
(* before the next iteration starts.                                       *)
RECURSIVE FIF_Samples(_, _, _, _, _)
FIF_Samples(st, face, k, point, tolerance) ==
    IF k > Len(sample_uvs) \/ st.evaluated < 0 THEN st
    ELSE FIF_Samples(FIF_Sample(st, face, sample_uvs[k], point, tolerance),
                     face, k + 1, point, tolerance)

RECURSIVE FIF_FallbackFaces(_, _, _, _, _)
FIF_FallbackFaces(st, faces, j, point, tolerance) ==
    IF j > Len(faces) \/ st.evaluated < 0 THEN st
    ELSE FIF_FallbackFaces(IF faces[j].planar
                           THEN FIF_Samples(st, faces[j], 1, point, tolerance)
                           ELSE st,
                           faces, j + 1, point, tolerance)

RECURSIVE FIF_FallbackObjs(_, _, _, _, _)
FIF_FallbackObjs(st, geo, i, point, tolerance) ==
    IF i > Len(geo) \/ st.evaluated < 0 THEN st
    ELSE FIF_FallbackObjs(IF geo[i].isSolid
                          THEN FIF_FallbackFaces(st, geo[i].Faces, 1, point, tolerance)
                          ELSE st,
                          geo, i + 1, point, tolerance)

(* Returns [value, primary, evaluated]: value is the face returned,        *)
(* primary the closest_face as the first loop left it, evaluated the       *)
(* number of fallback samples evaluated.                                   *)
find_intersecting_face(geo, point, tolerance) ==
    LET st1 == FIF_PrimaryObjs(FIF_Start, geo, 1, point)
        st2 == IF NeedsFallback(st1, tolerance)
               THEN FIF_FallbackObjs(st1, geo, 1, point, tolerance)
               ELSE st1
    IN  [value |-> st2.closest_face, primary |-> st1.closest_face,
         evaluated |-> st2.evaluated]

(* -------------- get_opposite_face_of_equipment (lines 32-43) ----------- *)
get_BoundingBox(element) == element.bbox

get_opposite_face_of_equipment(equip_element) ==
    LET bbox == get_BoundingBox(equip_element) IN
    IF bbox = None THEN None
    ELSE IF bbox.Max.Z > bbox.Min.Z THEN bbox.Max ELSE bbox.Min

(* ----------- place_family_instance_at_location (lines 196-204) --------- *)
CrossProduct(a, b) ==
    XYZ(a.Y * b.Z - a.Z * b.Y, a.Z * b.X - a.X * b.Z, a.X * b.Y - a.Y * b.X)

NeverZeroLength(v) == FALSE

(* The host's tolerance in IsZeroLength is not modelled. *)
IsZeroLength(v) == v.X = 0 /\ v.Y = 0 /\ v.Z = 0

(* v / |v|, kept as the vector and the square of the length it is divided  *)
(* by; the zero vector is returned as it is.                               *)
Normalize(v) ==
    [X |-> v.X, Y |-> v.Y, Z |-> v.Z,
     lenSq |-> IF IsZeroLength(v) THEN 1 ELSE v.X * v.X + v.Y * v.Y + v.Z * v.Z]

ComputeNormal(face, uv) == face.normal

first_symbol == [symbol |-> "ADR-10D SLEEVE CUTOUT-"]

(* doc.Create.NewFamilyInstance(reference, location, direction, symbol) *)
NewFaceBasedInstance(reference, location, direction, symbol) ==
    [kind |-> "face", Reference |-> reference, location |-> location,
     reference_direction |-> direction, symbol |-> symbol]

place_family_instance_at_location(equip_element, symbol, face, location_point) ==
    LET adjusted_location == location_point
        normal == ComputeNormal(face, <<5, 5>>)
        rd1 == CrossProduct(normal, BasisX)
        rd2 == IF IsZeroLength(rd1) THEN CrossProduct(normal, BasisY) ELSE rd1
        reference_direction == Normalize(rd2)
    IN  NewFaceBasedInstance(face.Reference, adjusted_location,
                             reference_direction, symbol)

(* ------------------- the placement loop (lines 206-266) ---------------- *)
(* Lengths of parameters: feet in units of 0.0001 ft, millimetres in units *)
(* of 0.00001 mm, so 304.8 mm per foot is a factor 3048.                   *)
MmPerFoot == 3048

doc_GetElement(ref) == ref.target

(* doc.Create.NewFamilyInstance(point, symbol, host, NonStructural); the   *)
(* host API rejects a null point.  element is the equipment element being  *)
(* processed when the instance is created.                                 *)
NewHostedInstance(point, symbol, host, element) ==
    [kind |-> "point", location |-> point, symbol |-> symbol, host |-> host,
     element |-> element.Id]

(* lines 249-254: Length and Outer Diameter of the new instance. *)
SetSleeveParameters(inst, element, beam_width, sleeve_diameter) ==
    [kind |-> inst.kind, Reference |-> inst.Reference, location |-> inst.location,
     reference_direction |-> inst.reference_direction, symbol |-> inst.symbol,
     element |-> element.Id,
     Length |-> beam_width \div MmPerFoot,
     OuterDiameter |-> [num |-> sleeve_diameter + 200000, den |-> 100000 * MmPerFoot]]

(* lines 232-238: the beam type's width in mm, None when the loop          *)
(* continues with the next intersection.                                   *)
BeamWidth(beam_type) ==
    LET width_param == IF beam_type.b # None THEN beam_type.b ELSE beam_type.B IN
    IF width_param # None /\ width_param.StorageType = "Double"
    THEN [mm |-> width_param.AsDouble * MmPerFoot]
    ELSE None

(* lines 227-257: one iteration of the loop over the intersections.  st    *)
(* holds the module-level names the iteration reads and writes; raised is  *)
(* TRUE once an exception has left the try block.                          *)
LoopIntersect(st, element, intersect, location_point, sleeve_diameter) ==
    IF st.raised \/ st.instance_placed \/ intersect.type # "Beam" THEN st
    ELSE
    LET host == doc_GetElement(intersect) IN
    IF host = None THEN st
    ELSE
    LET beam_type == host.type IN
    IF beam_type = None THEN st
    ELSE
    LET beam_width == BeamWidth(beam_type) IN
    IF beam_width = None THEN st
    ELSE
    LET geo == host.geometry
        bbox == get_BoundingBox(element)
        fep == get_opposite_face_of_equipment(element)
        r == find_intersecting_face_based_on_far_end(geo, fep, bbox, base_tolerance)
        st1 == [st EXCEPT !.equip_bbox = bbox, !.far_end_point = fep,
                          !.ffe = [fn |-> "ffe", raised |-> r.raised,
                                   value |-> r.value, primary |-> r.value,
                                   evaluated |-> 0]]
    IN  IF r.raised THEN [st1 EXCEPT !.raised = TRUE]
        ELSE IF r.value # None /\ r.value.Reference # None
        THEN LET inst == SetSleeveParameters(
                            place_family_instance_at_location(
                                element, first_symbol, r.value, location_point),
                            element, beam_width.mm, sleeve_diameter)
             IN  [st1 EXCEPT !.instances = Append(@, inst),
                             !.placed_instance_count = @ + 1,
                             !.instance_placed = TRUE]
        ELSE st1

RECURSIVE LoopIntersections(_, _, _, _, _, _)
LoopIntersections(st, element, intersections, k, location_point, sleeve_diameter) ==
    IF k > Len(intersections) THEN st
    ELSE LoopIntersections(
            LoopIntersect(st, element, intersections[k], location_point,
                          sleeve_diameter),
            element, intersections, k + 1, location_point, sleeve_diameter)

(* lines 258-263: the placement that is made when no beam face matched. *)
FallbackPlacement(st, element, intersections) ==
    IF st.raised \/ st.instance_placed \/ Len(intersections) = 0 THEN st
    ELSE LET fallback_host == doc_GetElement(intersections[1]) IN
         IF st.far_end_point = Unbound \/ st.far_end_point = None
         THEN [st EXCEPT !.raised = TRUE]
         ELSE [st EXCEPT !.instances = Append(@, NewHostedInstance(
                                st.far_end_point, first_symbol, fallback_host,
                                element)),
                         !.placed_instance_count = @ + 1]

(* lines 209-265: the body of the loop for one equipment element. *)
ProcessOne(st, element) ==
    IF ~element.isFamilyInstance \/ ~element.Location.isLocationPoint THEN st
    ELSE
    LET location_point == element.Location.Point
        host_data == IF element.Id \in DOMAIN family_instance_data
                     THEN family_instance_data[element.Id]
                     ELSE [sleeve_diameter |-> None, intersecting_elements |-> <<>>]
        intersections == host_data.intersecting_elements
    IN  IF Len(intersections) = 0 THEN st
        ELSE
        LET sleeve_diameter == IF host_data.sleeve_diameter # None
                                  /\ host_data.sleeve_diameter.unit = "mm"
                               THEN host_data.sleeve_diameter.value
                               ELSE 0
            st1 == [st EXCEPT !.instance_placed = FALSE, !.raised = FALSE]
            st2 == LoopIntersections(st1, element, intersections, 1,
                                     location_point, sleeve_diameter)
        IN  FallbackPlacement(st2, element, intersections)

(* ----------------------------- input sets ------------------------------ *)
(* A shape lists, per geometry object, -1 for a non-solid object and       *)
(* otherwise the number of faces of the solid.                             *)
RECURSIVE NFacesUpTo(_, _)
NFacesUpTo(sh, i) ==
    IF i = 0 THEN 0 ELSE NFacesUpTo(sh, i - 1) + Max2(sh[i], 0)

NFaces(sh) == NFacesUpTo(sh, Len(sh))

Shapes(maxObjs, maxFaces) ==
    {sh \in UNION {[1..n -> -1..maxFaces] : n \in 0..maxObjs} :
        NFaces(sh) <= maxFaces}

(* The geometry of shape sh whose faces, in enumeration order, are fs. *)
Build(sh, fs) ==
    [i \in 1..Len(sh) |->
        IF sh[i] < 0 THEN NonSolid
        ELSE Solid([j \in 1..sh[i] |-> fs[NFacesUpTo(sh, i - 1) + j]])]

Proj(d) == [Distance |-> d]
Ref(id) == [faceRef |-> id]

Dists == {k * 1000 : k \in 0..MaxDistK}
ProjResults == {None} \cup {Proj(d) : d \in Dists}

(* Offsets of a face whose samples are all far from the point except the   *)
(* last one, which has offset lo.                                          *)
FarOffset == 3000
OffsetsOf(lo) ==
    [uv \in UVSet |-> IF uv = sample_uvs[Len(sample_uvs)] THEN lo ELSE FarOffset]

SampleOffsets == {0, -1000, 2000, FarOffset}
SampledProjResults == {None, Proj(1000), Proj(2000), Proj(3000)}

(* <<proj, planar, offset of the last sample>> of the faces given to        *)
(* find_intersecting_face.  Samples of a non-planar face are never read by *)
(* the code, so two of their values are enough.                            *)
FaceKinds ==
    (SampledProjResults \X {TRUE} \X SampleOffsets)
        \cup (SampledProjResults \X {FALSE} \X {0, FarOffset})

(* Shapes without empty solids (SpecFFE covers those). *)
SampledShapes ==
    {sh \in Shapes(MaxObjs, MaxSampledFaces) : \A i \in DOMAIN sh : sh[i] # 0}

Box(xext, yext, zext) == [Min |-> XYZ(0, 0, 0), Max |-> XYZ(xext, yext, zext)]
Boxes == {Box(2000, 2000, 0), Box(3937, 2000, 0), Box(2000, 7874, 0),
          Box(5000, 2000, 0)}
SmallBox == Box(2000, 2000, 0)
ProbePoint == XYZ(0, 0, 0)

(* The faces of a geometry, in enumeration order (solids only). *)
RECURSIVE FacesFrom(_, _)
FacesFrom(geo, i) ==
    IF i > Len(geo) THEN <<>>
    ELSE (IF geo[i].isSolid THEN geo[i].Faces ELSE <<>>) \o FacesFrom(geo, i + 1)

AllFaces(geo) == FacesFrom(geo, 1)

(* --------------------------- specifications ---------------------------- *)
NoResult == [fn |-> "none"]

MatchIdle ==
    /\ face_normal = XYZ(0, 0, 1)
    /\ new_instance = None
    /\ elements = <<>>
    /\ family_instance_data = <<>>
    /\ elem_idx = 0
    /\ far_end_point = Unbound
    /\ placed_instance_count = 0
    /\ instances = <<>>

InitFFE ==
    /\ pc = "idle"
    /\ \E sh \in Shapes(MaxObjs, MaxFaces) :
         \E ps \in [1..NFaces(sh) -> ProjResults] :
            geo_element = Build(sh, [k \in 1..NFaces(sh) |->
                MkFace(k, ps[k], TRUE, OffsetsOf(FarOffset), Ref(k), XYZ(0, 0, 1))])
    /\ equip_bbox \in Boxes \cup {None}
    /\ result = NoResult
    /\ MatchIdle

InitMatch ==
    /\ pc = "idle"
    /\ \E sh \in SampledShapes :
         \E ps \in [1..NFaces(sh) -> FaceKinds] :
            geo_element = Build(sh, [k \in 1..NFaces(sh) |->
                MkFace(k, ps[k][1], ps[k][2], OffsetsOf(ps[k][3]), Ref(k),
                       XYZ(0, 0, 1))])
    /\ equip_bbox = SmallBox
    /\ result = NoResult
    /\ MatchIdle

MatchUnchanged ==
    UNCHANGED <<geo_element, equip_bbox, face_normal, new_instance, elements,
                family_instance_data, elem_idx, far_end_point,
                placed_instance_count, instances>>

CallFFE ==
    /\ pc = "idle"
    /\ LET r == find_intersecting_face_based_on_far_end(
                    geo_element, ProbePoint, equip_bbox, base_tolerance)
       IN result' = [fn |-> "ffe", raised |-> r.raised, value |-> r.value,
                     primary |-> r.value, evaluated |-> 0]
    /\ pc' = "done"
    /\ MatchUnchanged

CallFIF ==
    /\ pc = "idle"
    /\ LET r == find_intersecting_face(geo_element, ProbePoint, fif_tolerance)
       IN result' = [fn |-> "fif", raised |-> FALSE, value |-> r.value,
                     primary |-> r.primary, evaluated |-> r.evaluated]
    /\ pc' = "done"
    /\ MatchUnchanged

NextFFE == CallFFE
NextMatch == CallFFE \/ CallFIF

SpecFFE == InitFFE /\ [][NextFFE]_vars
SpecMatch == InitMatch /\ [][NextMatch]_vars

(* place_family_instance_at_location called on a face of normal            *)
(* face_normal.                                                            *)
Coords == (0 - MaxCoord)..MaxCoord
EquipmentLocation == XYZ(1000, 1000, 0)

InitPlace ==
    /\ pc = "idle"
    /\ face_normal \in {XYZ(x, y, z) : x \in Coords, y \in Coords, z \in Coords}
    /\ new_instance = None
    /\ geo_element = <<>>
    /\ equip_bbox = SmallBox
    /\ result = NoResult
    /\ elements = <<>>
    /\ family_instance_data = <<>>
    /\ elem_idx = 0
    /\ far_end_point = Unbound
    /\ placed_instance_count = 0
    /\ instances = <<>>

CallPlace ==
    /\ pc = "idle"
    /\ new_instance' = place_family_instance_at_location(
            None, first_symbol,
            MkFace(1, None, TRUE, OffsetsOf(FarOffset), Ref(1), face_normal),
            EquipmentLocation)
    /\ pc' = "done"
    /\ UNCHANGED <<geo_element, equip_bbox, result, face_normal, elements,
                   family_instance_data, elem_idx, far_end_point,
                   placed_instance_count, instances>>

NextPlace == CallPlace
SpecPlace == InitPlace /\ [][NextPlace]_vars

(* The placement loop over the collected equipment elements. *)
WallHost(id) == [category |-> "Wall", Id |-> id]
BeamHost(id, type, geo) ==
    [category |-> "Beam", Id |-> id, type |-> type, geometry |-> geo]
DoubleParam(v) == [StorageType |-> "Double", AsDouble |-> v]
TextParam == [StorageType |-> "String", AsDouble |-> 0]
BeamFace(id, d, ref, normal) ==
    MkFace(id, Proj(d), TRUE, OffsetsOf(FarOffset), ref, normal)

IntersectKinds ==
    {"Wall", "BeamGone", "BeamNoWidth", "BeamFar", "BeamNear", "BeamNoRef"}

MkIntersect(kind, id) ==
    [id |-> id,
     type |-> IF kind = "Wall" THEN "Wall" ELSE "Beam",
     target |->
        CASE kind = "Wall" -> WallHost(id)
          [] kind = "BeamGone" -> None
          [] kind = "BeamNoWidth" ->
                BeamHost(id, [b |-> None, B |-> TextParam],
                         <<Solid(<<BeamFace(1, 0, Ref(1), XYZ(0, 0, 1))>>)>>)
          [] kind = "BeamFar" ->
                BeamHost(id, [b |-> None, B |-> DoubleParam(10000)],
                         <<NonSolid, Solid(<<BeamFace(1, 3000, Ref(1), XYZ(0, 0, 1))>>)>>)
          [] kind = "BeamNear" ->
                BeamHost(id, [b |-> DoubleParam(5000), B |-> None],
                         <<Solid(<<BeamFace(1, 3000, Ref(1), XYZ(0, 1, 0)),
                                   BeamFace(2, 1000, Ref(2), XYZ(1, 0, 0))>>)>>)
          [] OTHER ->
                BeamHost(id, [b |-> DoubleParam(5000), B |-> None],
                         <<Solid(<<BeamFace(1, 0, None, XYZ(0, 0, 1))>>)>>)]

ElemBox(i) ==
    [Min |-> XYZ(i * 10000, 0, 0),
     Max |-> XYZ(i * 10000 + 2000, 2000, IF i % 2 = 1 THEN 3000 ELSE 0)]

ElemKinds ==
    {[fi |-> FALSE, loc |-> TRUE, selected |-> FALSE, hasBBox |-> TRUE, inter |-> <<>>],
     [fi |-> TRUE, loc |-> FALSE, selected |-> TRUE, hasBBox |-> TRUE, inter |-> <<>>],
     [fi |-> TRUE, loc |-> TRUE, selected |-> FALSE, hasBBox |-> TRUE, inter |-> <<>>]}
    \cup
    {[fi |-> TRUE, loc |-> TRUE, selected |-> TRUE, hasBBox |-> b, inter |-> q] :
        b \in BOOLEAN,
        q \in UNION {[1..n -> IntersectKinds] : n \in 0..MaxIntersects}}

MkElement(i, kind) ==
    [Id |-> i, isFamilyInstance |-> kind.fi,
     Location |-> [isLocationPoint |-> kind.loc,
                   Point |-> XYZ(i * 10000 + 1000, 1000, 0)],
     bbox |-> IF kind.hasBBox THEN ElemBox(i) ELSE None]

MkHostData(i, kind) ==
    [sleeve_diameter |-> IF i % 2 = 1 THEN [unit |-> "mm", value |-> 5000000]
                         ELSE [unit |-> "Not Found", value |-> 0],
     intersecting_elements |->
        [k \in 1..Len(kind.inter) |-> MkIntersect(kind.inter[k], 100 * i + k)]]

InitLoop ==
    /\ pc = "loop"
    /\ \E n \in 1..MaxElems :
         \E ks \in [1..n -> ElemKinds] :
            /\ elements = [i \in 1..n |-> MkElement(i, ks[i])]
            /\ family_instance_data =
                    [i \in {j \in 1..n : ks[j].selected} |-> MkHostData(i, ks[i])]
    /\ elem_idx = 0
    /\ far_end_point = Unbound
    /\ equip_bbox = Unbound
    /\ placed_instance_count = 0
    /\ instances = <<>>
    /\ result = NoResult
    /\ geo_element = <<>>
    /\ face_normal = XYZ(0, 0, 1)
    /\ new_instance = None

ProcessElement ==
    /\ pc = "loop"
    /\ elem_idx < Len(elements)
    /\ LET st0 == [far_end_point |-> far_end_point, equip_bbox |-> equip_bbox,
                   instances |-> instances,
                   placed_instance_count |-> placed_instance_count,
                   instance_placed |-> FALSE, raised |-> FALSE, ffe |-> result]
           st == ProcessOne(st0, elements[elem_idx + 1])
       IN  /\ far_end_point' = st.far_end_point
           /\ equip_bbox' = st.equip_bbox
           /\ instances' = st.instances
           /\ placed_instance_count' = st.placed_instance_count
           /\ result' = st.ffe
    /\ elem_idx' = elem_idx + 1
    /\ UNCHANGED <<pc, geo_element, face_normal, new_instance, elements,
                   family_instance_data>>

(* line 266 *)
ShowPlacedCount ==
    /\ pc = "loop"
    /\ elem_idx = Len(elements)
    /\ pc' = "shown"
    /\ UNCHANGED <<geo_element, equip_bbox, result, face_normal, new_instance,
                   elements, family_instance_data, elem_idx, far_end_point,
                   placed_instance_count, instances>>

NextLoop == ProcessElement \/ ShowPlacedCount
SpecLoop == InitLoop /\ [][NextLoop]_vars

(* ------------------- claims about the matching functions --------------- *)
FaceSet == {AllFaces(geo_element)[k] : k \in DOMAIN AllFaces(geo_element)}
Projectable == {f \in FaceSet : f.proj # None}
SetMin(S) == CHOOSE x \in S : \A y \in S : x <= y
MinSample(f) == SetMin({Abs(f.offsets[uv]) : uv \in UVSet})
Done(fn) == pc = "done" /\ result.fn = fn
Returned == pc = "done" /\ ~result.raised /\ result.value # None

(* The geometry without the face id. *)
Remove(geo, id) ==
    [i \in DOMAIN geo |->
        IF geo[i].isSolid
        THEN Solid(SelectSeq(geo[i].Faces, LAMBDA f : f.id # id))
        ELSE geo[i]]

(* The tolerance of the call made: SpecMatch calls                        *)
(* find_intersecting_face_based_on_far_end with a bounding box that is not *)
(* over the threshold, so its tolerance is base_tolerance.                 *)
MatchTolerance == IF result.fn = "fif" THEN fif_tolerance ELSE base_tolerance

(* C1 (as stated): when every projection distance and every fallback       *)
(* sample distance exceeds the tolerance, either function returns none.    *)
C1_NoneWhenAllOutOfTolerance ==
    (/\ pc = "done"
     /\ ~result.raised
     /\ \A f \in Projectable : f.proj.Distance > MatchTolerance
     /\ \A f \in FaceSet : MinSample(f) > MatchTolerance)
        => result.value = None

(* C2 (as stated): the face the primary pass hands back has the minimum    *)
(* projection distance over the projectable faces and is within tolerance. *)
C2_PrimaryMinWithinTolerance ==
    (/\ Returned
     /\ result.value = result.primary
     /\ ~(result.fn = "fif" /\ result.value.planar
                            /\ MinSample(result.value) < MatchTolerance))
        => /\ result.value.proj # None
           /\ result.value.proj.Distance
                  = SetMin({f.proj.Distance : f \in Projectable})
           /\ result.value.proj.Distance <= MatchTolerance

(* C3: when some face projects within tolerance, find_intersecting_face    *)
(* evaluates no fallback sample and returns the face of minimum projection *)
(* distance.                                                               *)
C3_FallbackOnlyWithoutPrimaryMatch ==
    (Done("fif") /\ \E f \in Projectable : f.proj.Distance <= fif_tolerance)
        => /\ result.evaluated = 0
           /\ result.value \in Projectable
           /\ result.value.proj.Distance
                  = SetMin({f.proj.Distance : f \in Projectable})

C3_Witness ==
    /\ Done("fif")
    /\ result.value \in Projectable
    /\ result.value.proj.Distance <= fif_tolerance
    /\ \E g \in FaceSet : /\ g.id # result.value.id
                           /\ g.planar
                           /\ MinSample(g) < result.value.proj.Distance

FallbackSelects ==
    /\ result.fn = "fif"
    /\ result.evaluated > 0
    /\ \E f \in FaceSet : f.planar /\ MinSample(f) < fif_tolerance

(* C5: the face returned is the first, in enumeration order, of the faces  *)
(* that share the minimum qualifying distance (projection distance, or     *)
(* sample distance when the fallback pass selects).                        *)
C5_FirstFoundKept ==
    Returned =>
        IF FallbackSelects
        THEN \A f \in FaceSet :
                (f.planar /\ MinSample(f) = MinSample(result.value))
                    => f.id >= result.value.id
        ELSE \A f \in Projectable :
                (result.value.proj # None
                    /\ f.proj.Distance = result.value.proj.Distance)
                    => f.id >= result.value.id

C5_Witness ==
    /\ Done("ffe")
    /\ Returned
    /\ \E g \in Projectable : /\ g.id > result.value.id
                               /\ g.proj.Distance = result.value.proj.Distance

(* C6 (as stated): what either function returns is what it returns with    *)
(* an unprojectable face taken out of the input.                           *)
C6_UnprojectableAsIfAbsent ==
    (pc = "done" /\ ~result.raised) =>
        \A f \in FaceSet \ Projectable :
            result.value =
                IF result.fn = "ffe"
                THEN find_intersecting_face_based_on_far_end(
                        Remove(geo_element, f.id), ProbePoint, equip_bbox,
                        base_tolerance).value
                ELSE find_intersecting_face(
                        Remove(geo_element, f.id), ProbePoint, fif_tolerance).value

(* C6 (amended): the face selected by the projection loop (the result of   *)
(* find_intersecting_face_based_on_far_end, the closest_face of            *)
(* find_intersecting_face before its fallback pass) is the one selected    *)
(* with an unprojectable face taken out of the input.                      *)
C6_ProjectionLoopSkipsUnprojectable ==
    (pc = "done" /\ ~result.raised) =>
        \A f \in FaceSet \ Projectable :
            result.primary =
                IF result.fn = "ffe"
                THEN find_intersecting_face_based_on_far_end(
                        Remove(geo_element, f.id), ProbePoint, equip_bbox,
                        base_tolerance).value
                ELSE FIF_PrimaryObjs(FIF_Start, Remove(geo_element, f.id), 1,
                                     ProbePoint).closest_face

C6_Witness ==
    /\ Done("ffe")
    /\ Returned
    /\ \E f \in FaceSet \ Projectable : f.id < result.value.id

NoPrimaryMatch ==
    Done("fif") /\ \A f \in Projectable : f.proj.Distance > fif_tolerance

PlanarFaces == {f \in FaceSet : f.planar}

BoxDiameter ==
    LET xext == equip_bbox.Max.X - equip_bbox.Min.X
        yext == equip_bbox.Max.Y - equip_bbox.Min.Y
    IN  IF xext > yext THEN xext ELSE yext

(* C4: the tolerance that accepts a face is base_tolerance * diameter /    *)
(* threshold when diameter = max(X-extent, Y-extent) exceeds the threshold *)
(* and base_tolerance otherwise: a face is returned exactly when some      *)
(* projection distance is within that tolerance.                           *)
C4_ToleranceScaling ==
    (Done("ffe") /\ ~result.raised) =>
        (result.value # None <=>
            \E f \in Projectable :
                IF BoxDiameter > threshold
                THEN f.proj.Distance * threshold <= base_tolerance * BoxDiameter
                ELSE f.proj.Distance <= base_tolerance)

C4_Witness ==
    /\ Done("ffe")
    /\ Returned
    /\ BoxDiameter > threshold
    /\ result.value.proj.Distance > base_tolerance

(* C9: for a non-zero face normal the reference direction given to         *)
(* NewFamilyInstance is non-zero: normal x BasisX, or normal x BasisY when *)
(* normal x BasisX is zero.                                                *)
C9_ReferenceDirectionNonZero ==
    (pc = "done" /\ new_instance # None /\ ~IsZeroLength(face_normal)) =>
        LET rd == new_instance.reference_direction
            nx == XYZ(0, face_normal.Z, 0 - face_normal.Y)
            ny == XYZ(0 - face_normal.Z, 0, face_normal.X)
            want == IF face_normal.Y = 0 /\ face_normal.Z = 0 THEN ny ELSE nx
        IN  /\ ~(rd.X = 0 /\ rd.Y = 0 /\ rd.Z = 0)
            /\ XYZ(rd.X, rd.Y, rd.Z) = want
            /\ rd.lenSq = want.X * want.X + want.Y * want.Y + want.Z * want.Z

C9_Witness ==
    /\ pc = "done"
    /\ new_instance # None
    /\ face_normal.X # 0
    /\ face_normal.Y = 0
    /\ face_normal.Z = 0
    /\ new_instance.reference_direction.Z # 0

(* C7 (as stated): a call of find_intersecting_face_based_on_far_end made  *)
(* by the placement loop never ends with an exception.                     *)
C7_MatcherNeverRaises == result.fn = "ffe" => ~result.raised

(* C10 (as stated): an instance placed by the fallback placement is at the *)
(* far-end point of the element that was being processed.                  *)
C10_FallbackAtOwnFarEnd ==
    \A k \in DOMAIN instances :
        instances[k].kind = "point"
            => instances[k].location
                  = get_opposite_face_of_equipment(elements[instances[k].element])

====
